---- MODULE Spec2Model ----
(***************************************************************************)
(* A model of factchat_client_min.py: the FactChatClient facade with its   *)
(* model router, payload builder and response normaliser.                   *)
(*                                                                         *)
(* Python values are tagged records, so that values of different Python    *)
(* types can be compared: None, str, int, list and dict.  A dict is a      *)
(* function from its keys; where the order of the keys is observable       *)
(* (str(dict)) the keys are taken in the order of KeyOrder.                 *)
(*                                                                         *)
(* The file as committed does not compile: the from __future__ import in   *)
(* line 44 follows a second string statement (SyntaxError), and the        *)
(* docstring of router in line 85 is indented deeper than the body that    *)
(* follows in line 96 (IndentationError).  Neither changes a statement of  *)
(* a function; the model is of the statements as written, that is, of the  *)
(* module with these two layout defects repaired.                          *)
(***************************************************************************)
EXTENDS Integers, Sequences, FiniteSets, TLC

VARIABLES env,      \* the process environment (os.environ), fixed per run
          client,   \* the constructed FactChatClient, or NoClient
          op,       \* the operation entered last: its name
          args,     \* ... its arguments
          out,      \* ... its outcome: none yet, a return value or an exception
          pc,       \* position: idle, inside call (post, status, json, parse), done
          frame,    \* the locals of call: path, provider, url, payload
          posts,    \* the requests.post invocations of the current operation
          resp,     \* the response object requests.post returned
          decoded,  \* the decoded response body
          invoked,  \* how often _parse_result was entered in the current operation
          made      \* the LLMResponse objects constructed in the current operation

vars == <<env, client, op, args, out, pc, frame, posts, resp, decoded, invoked, made>>

----------------------------------------------------------------------------
(* Python values *)

PyNone == [t |-> "null"]
Str(s) == [t |-> "str", s |-> s]
Num(n) == [t |-> "num", n |-> n]
List(l) == [t |-> "list", l |-> l]
Map(m) == [t |-> "map", m |-> m]
EmptyMap == Map(<<>>)

IsMap(v) == v.t = "map"
IsList(v) == v.t = "list"
Has(v, k) == k \in DOMAIN v.m

\* bool(v): None, "", 0, [] and {} are false
Truthy(v) ==
    CASE v.t = "null" -> FALSE
      [] v.t = "str"  -> v.s # ""
      [] v.t = "num"  -> v.n # 0
      [] v.t = "list" -> v.l # <<>>
      [] v.t = "map"  -> DOMAIN v.m # {}

\* a or b
Or(a, b) == IF Truthy(a) THEN a ELSE b

\* d.get(k, default) of a dict d
Get(d, k, default) == IF k \in DOMAIN d.m THEN d.m[k] ELSE default

\* d.update(e) of dicts d and e: overwrite by key, no merging of nested values
Update(d, e) ==
    Map([k \in DOMAIN d.m \cup DOMAIN e.m |-> IF k \in DOMAIN e.m THEN e.m[k] ELSE d.m[k]])

\* d without the key k (the dict after d.pop(k, ...))
Without(d, k) == Map([j \in DOMAIN d.m \ {k} |-> d.m[j]])

\* outcomes of an operation
NoOut == [kind |-> "none"]
Return(v) == [kind |-> "return", value |-> v]
Raise(exc, msg) == [kind |-> "raise", exc |-> exc, msg |-> msg]

----------------------------------------------------------------------------
(* str operations *)

LowerChar(c) ==
    CASE c = "A" -> "a" [] c = "B" -> "b" [] c = "C" -> "c" [] c = "D" -> "d"
      [] c = "E" -> "e" [] c = "F" -> "f" [] c = "G" -> "g" [] c = "H" -> "h"
      [] c = "I" -> "i" [] c = "J" -> "j" [] c = "K" -> "k" [] c = "L" -> "l"
      [] c = "M" -> "m" [] c = "N" -> "n" [] c = "O" -> "o" [] c = "P" -> "p"
      [] c = "Q" -> "q" [] c = "R" -> "r" [] c = "S" -> "s" [] c = "T" -> "t"
      [] c = "U" -> "u" [] c = "V" -> "v" [] c = "W" -> "w" [] c = "X" -> "x"
      [] c = "Y" -> "y" [] c = "Z" -> "z" [] OTHER -> c

RECURSIVE Lower(_)
\* s.lower()
Lower(s) == IF s = "" THEN "" ELSE LowerChar(SubSeq(s, 1, 1)) \o Lower(SubSeq(s, 2, Len(s)))

\* s.startswith(p)
StartsWith(s, p) == Len(s) >= Len(p) /\ SubSeq(s, 1, Len(p)) = p

RECURSIVE Rstrip(_, _)
\* s.rstrip(c) for a single character c
Rstrip(s, c) ==
    IF s # "" /\ SubSeq(s, Len(s), Len(s)) = c THEN Rstrip(SubSeq(s, 1, Len(s) - 1), c) ELSE s

RECURSIVE Lstrip(_, _)
\* s.lstrip(c) for a single character c
Lstrip(s, c) ==
    IF s # "" /\ SubSeq(s, 1, 1) = c THEN Lstrip(SubSeq(s, 2, Len(s)), c) ELSE s

\* the order in which the keys of a dict are rendered
KeyOrder == <<"id", "choices", "message", "role", "content", "finish_reason",
              "usage", "total_tokens", "model", "a">>

RECURSIVE Repr(_)
RECURSIVE ReprElems(_, _)
RECURSIVE ReprItems(_, _, _)
\* repr(v), which str(v) of a dict or a list is
Repr(v) ==
    CASE v.t = "null" -> "None"
      [] v.t = "str"  -> "'" \o v.s \o "'"
      [] v.t = "num"  -> ToString(v.n)
      [] v.t = "list" -> "[" \o ReprElems(v.l, 1) \o "]"
      [] v.t = "map"  -> "{" \o ReprItems(v.m, 1, TRUE) \o "}"
ReprElems(l, i) ==
    IF i > Len(l) THEN ""
    ELSE (IF i > 1 THEN ", " ELSE "") \o Repr(l[i]) \o ReprElems(l, i + 1)
ReprItems(m, i, first) ==
    IF i > Len(KeyOrder) THEN ""
    ELSE IF KeyOrder[i] \in DOMAIN m
         THEN (IF first THEN "" ELSE ", ") \o "'" \o KeyOrder[i] \o "': "
              \o Repr(m[KeyOrder[i]]) \o ReprItems(m, i + 1, FALSE)
         ELSE ReprItems(m, i + 1, first)

----------------------------------------------------------------------------
(* FactChatClient: configuration *)

DEFAULT_BASE == "https://factchat-cloud.mindlogic.ai/v1/api"
DefaultTimeout == 60
DefaultMaxTokens == 256

NoClient == [constructed |-> FALSE]

\* os.environ.get(k): the value, None when the variable is not set
EnvGet(e, k) == IF k \in DOMAIN e THEN Str(e[k]) ELSE PyNone

\* __init__ without the check of the credential: a missing one becomes ""
ConstructNoCheck(e, api_key, base_url, timeout) ==
    LET key == Or(api_key, Or(EnvGet(e, "FACTCHAT_API_KEY"), Str("")))
        base == Or(base_url, Or(EnvGet(e, "FACTCHAT_BASE_URL"), Str(DEFAULT_BASE)))
    IN  Return([constructed |-> TRUE, api_key |-> key,
                base_url |-> Str(Rstrip(base.s, "/")), timeout |-> timeout])

\* __init__: the outcome is the new client, or RuntimeError and no client
Construct(e, api_key, base_url, timeout) ==
    LET key == Or(api_key, EnvGet(e, "FACTCHAT_API_KEY"))
        base == Or(base_url, Or(EnvGet(e, "FACTCHAT_BASE_URL"), Str(DEFAULT_BASE)))
    IN  IF ~Truthy(key)
        THEN Raise("RuntimeError", "FACTCHAT_API_KEY missing")
        ELSE Return([constructed |-> TRUE, api_key |-> key,
                     base_url |-> Str(Rstrip(base.s, "/")), timeout |-> timeout])

\* _headers
Headers(c) ==
    Map([k \in {"Authorization", "Content-Type"} |->
            IF k = "Authorization" THEN Str("Bearer " \o c.api_key.s)
            ELSE Str("application/json")])

----------------------------------------------------------------------------
(* FactChatClient: router, build_payload, _parse_result *)

\* router matching the prefixes on the model as passed, without lower()
RouterCaseSensitive(model) ==
    IF StartsWith(model, "claude-")
    THEN Return([path |-> "anthropic/messages", provider |-> "anthropic"])
    ELSE IF StartsWith(model, "gpt-")
    THEN Return([path |-> "openai/chat/completions", provider |-> "openai"])
    ELSE Raise("ValueError", "Unsupported model: " \o model)

\* router naming a provider build_payload has no branch for
RouterOtherProvider(model) ==
    LET m == Lower(model)
    IN  IF StartsWith(m, "claude-")
        THEN Return([path |-> "anthropic/messages", provider |-> "claude"])
        ELSE IF StartsWith(m, "gpt-")
        THEN Return([path |-> "openai/chat/completions", provider |-> "openai"])
        ELSE Raise("ValueError", "Unsupported model: " \o model)

\* router: (path, provider), or ValueError naming the model as passed
Router(model) ==
    LET m == Lower(model)
    IN  IF StartsWith(m, "claude-")
        THEN Return([path |-> "anthropic/messages", provider |-> "anthropic"])
        ELSE IF StartsWith(m, "gpt-")
        THEN Return([path |-> "openai/chat/completions", provider |-> "openai"])
        ELSE Raise("ValueError", "Unsupported model: " \o model)

\* the names a keyword argument of build_payload and of call cannot have:
\* Python rejects the invocation with TypeError (multiple values for an
\* argument) before the body runs
ParamNames == {"self", "model", "user_text"}
Bindable(kwargs) == DOMAIN kwargs.m \cap ParamNames = {}
BindError == Raise("TypeError", "got multiple values for argument")

\* [{"role": "user", "content": user_text}]
UserMessages(user_text) ==
    List(<<Map([k \in {"role", "content"} |->
                   IF k = "role" THEN Str("user") ELSE Str(user_text)])>>)

\* the anthropic branch with max_tokens fixed at the default: the caller's is dropped
AnthropicPayloadFixedDefault(model, user_text, kwargs) ==
    LET rest == Without(kwargs, "max_tokens")
        payload == Map([k \in {"model", "max_tokens", "messages"} |->
                           CASE k = "model" -> Str(model)
                             [] k = "max_tokens" -> Num(DefaultMaxTokens)
                             [] k = "messages" -> UserMessages(user_text)])
    IN  Update(payload, rest)

\* the anthropic branch of build_payload
AnthropicPayload(model, user_text, kwargs) ==
    LET max_tokens == Get(kwargs, "max_tokens", Num(DefaultMaxTokens))
        rest == Without(kwargs, "max_tokens")
        payload == Map([k \in {"model", "max_tokens", "messages"} |->
                           CASE k = "model" -> Str(model)
                             [] k = "max_tokens" -> max_tokens
                             [] k = "messages" -> UserMessages(user_text)])
    IN  Update(payload, rest)

\* the openai branch merging deeply: the caller's messages follow the builder's
OpenAIPayloadDeepMerge(model, user_text, kwargs) ==
    LET payload == Map([k \in {"model", "messages"} |->
                           IF k = "model" THEN Str(model) ELSE UserMessages(user_text)])
        merged == Update(payload, kwargs)
    IN  IF Has(kwargs, "messages") /\ IsList(kwargs.m["messages"])
        THEN Map([merged.m EXCEPT !["messages"] =
                     List(UserMessages(user_text).l \o kwargs.m["messages"].l)])
        ELSE merged

\* the openai branch of build_payload
OpenAIPayload(model, user_text, kwargs) ==
    LET payload == Map([k \in {"model", "messages"} |->
                           IF k = "model" THEN Str(model) ELSE UserMessages(user_text)])
    IN  Update(payload, kwargs)

\* the body of build_payload
BuildPayload(model, user_text, kwargs) ==
    LET r == Router(model)
    IN  IF r.kind = "raise" THEN r
        ELSE IF r.value.provider = "anthropic"
        THEN Return(AnthropicPayload(model, user_text, kwargs))
        ELSE IF r.value.provider = "openai"
        THEN Return(OpenAIPayload(model, user_text, kwargs))
        ELSE Raise("ValueError", "Unsupported provider: " \o r.value.provider)

\* build_payload(model, user_text, **kwargs) as invoked: argument binding, then the body
CallBuildPayload(model, user_text, kwargs) ==
    IF Bindable(kwargs) THEN BuildPayload(model, user_text, kwargs) ELSE BindError

LLMResponse(text, model, usage, finish_reason, raw) ==
    [text |-> text, model |-> model, usage |-> usage,
     finish_reason |-> finish_reason, raw |-> raw]

\* v[0]
Index0(v) ==
    CASE v.t = "list" -> IF v.l = <<>> THEN Raise("IndexError", "list index out of range")
                         ELSE Return(v.l[1])
      [] v.t = "str"  -> IF v.s = "" THEN Raise("IndexError", "string index out of range")
                         ELSE Return(Str(SubSeq(v.s, 1, 1)))
      [] v.t = "map"  -> Raise("KeyError", "0")
      [] OTHER        -> Raise("TypeError", "object is not subscriptable")

NoGet == Raise("AttributeError", "object has no attribute 'get'")

\* _parse_result, the branch taken when data["choices"] is true
PrimaryPath(data) ==
    LET first == Index0(data.m["choices"])
    IN  IF first.kind = "raise" THEN first
        ELSE IF ~IsMap(first.value) THEN NoGet
        ELSE LET msg == Or(Get(first.value, "message", EmptyMap), EmptyMap)
             IN  IF ~IsMap(msg) THEN NoGet
                 ELSE Return(LLMResponse(
                         Or(Get(msg, "content", Str("")), Str("")),
                         Or(Get(data, "model", Str("")), Str("")),
                         Or(Get(data, "usage", EmptyMap), EmptyMap),
                         Get(first.value, "finish_reason", PyNone),
                         data))

\* the fallback rendering only the body's "content"
FallbackPathContentOnly(data) ==
    Return(LLMResponse(Str(Repr(Get(data, "content", Str("")))), Get(data, "model", Str("")),
                       Or(Get(data, "usage", EmptyMap), EmptyMap), PyNone, data))

\* _parse_result, the last line: the whole body as text
FallbackPath(data) ==
    Return(LLMResponse(Str(Repr(data)), Get(data, "model", Str("")),
                       Or(Get(data, "usage", EmptyMap), EmptyMap), PyNone, data))

\* _parse_result; the provider is not read
ParseResult(provider, data) ==
    CASE data.t = "map" ->
            IF Has(data, "choices") /\ Truthy(Get(data, "choices", PyNone))
            THEN PrimaryPath(data) ELSE FallbackPath(data)
      [] data.t \in {"list", "str"} -> NoGet
      [] OTHER -> Raise("TypeError", "argument is not iterable")

\* the address call posts to
Url(c, path) == c.base_url.s \o "/" \o Lstrip(path, "/")

----------------------------------------------------------------------------
(* The inputs the operations are exercised with *)

MaxSuffixLen == 2
MaxChoices == 2

\* a key that a dict under construction does not get
Absent == [t |-> "absent"]
\* the dict holding the keys of f whose value is not Absent
MkMap(f) == Map([k \in {j \in DOMAIN f : f[j].t # "absent"} |-> f[k]])

SuffixChars == {"4", "-", "O"}
RECURSIVE StringsUpTo(_)
StringsUpTo(n) ==
    IF n = 0 THEN {""}
    ELSE LET S == StringsUpTo(n - 1) IN S \cup {s \o c : s \in S, c \in SuffixChars}

Prefixes == {"gpt-", "GPT-", "Gpt-", "gPt-", "claude-", "CLAUDE-", "Claude-", "cLaUdE-",
             "gpt", "claude", "gpt_", "claude_", "xgpt-", " gpt-", "chatgpt-", "gemini-",
             "grok-", "", "g", "c", "gpt-image-", "claude-gpt-", "gpt-claude-", "GPT",
             "CLAUDE", "gpt-5-mini", "claude-3-opus"}
ModelNames == {p \o s : p \in Prefixes, s \in StringsUpTo(MaxSuffixLen)}

\* the models build_payload and call are exercised with
BuildModels == {"gpt-5-mini", "GPT-4", "claude-3-opus", "Claude-X", "gemini-pro", ""}
CallModels == {"gpt-5-mini", "Claude-3", "gemini-pro"}
Texts == {"ping", ""}

\* a caller's own conversation list
OwnMessages ==
    List(<<MkMap([role |-> Str("system"), content |-> Str("be brief")]),
           MkMap([role |-> Str("user"), content |-> Str("hi")])>>)

\* the keyword arguments: every choice of a value, or none, for each key
AllKwargs ==
    {MkMap([max_tokens |-> mt, messages |-> ms, temperature |-> tp, model |-> md,
            user_text |-> ut, self |-> sf]) :
        mt \in {Absent, Num(10), PyNone}, ms \in {Absent, OwnMessages},
        tp \in {Absent, Num(0)}, md \in {Absent, Str("gpt-4o")},
        ut \in {Absent, Str("pong")}, sf \in {Absent, PyNone}}
CallKwargs ==
    {EmptyMap, MkMap([max_tokens |-> Num(10), messages |-> OwnMessages]),
     MkMap([model |-> Str("gpt-4o")])}

\* constructor arguments and environments
ApiKeyArgs == {PyNone, Str(""), Str("sk-test")}
BaseUrlArgs == {PyNone, Str("https://proxy.test/api//")}
Envs ==
    {[k \in K |-> "https://env.test/v1/"] : K \in {{}, {"FACTCHAT_BASE_URL"}}}
    \cup
    {[k \in K \cup {"FACTCHAT_API_KEY"} |->
         IF k = "FACTCHAT_API_KEY" THEN v ELSE "https://env.test/v1/"] :
        K \in {{}, {"FACTCHAT_BASE_URL"}}, v \in {"", "sk-env"}}

\* response bodies
ContentVals == {Absent, PyNone, Str(""), Str("pong")}
MessageVals ==
    {Absent, PyNone, EmptyMap, Str("hi")}
    \cup {MkMap([role |-> Str("assistant"), content |-> c]) : c \in ContentVals}
FinishVals == {Absent, PyNone, Str("stop")}
FirstChoices ==
    {MkMap([message |-> mg, finish_reason |-> f]) : mg \in MessageVals, f \in FinishVals}
    \cup {Str("x"), Num(5), PyNone}
OtherChoice == MkMap([message |-> MkMap([content |-> Str("second")]),
                      finish_reason |-> Str("length")])
RECURSIVE Repeat(_, _)
Repeat(x, n) == IF n = 0 THEN <<>> ELSE <<x>> \o Repeat(x, n - 1)
ChoicesVals ==
    {Absent, PyNone, List(<<>>), Str(""), EmptyMap, Num(0),
     Str("abc"), MkMap([a |-> Num(1)]), Num(5)}
    \cup {List(<<f>> \o Repeat(OtherChoice, n)) : f \in FirstChoices, n \in 0..(MaxChoices - 1)}
UsageVals == {Absent, PyNone, EmptyMap, MkMap([total_tokens |-> Num(5)])}
ModelVals == {Absent, PyNone, Str(""), Str("gpt-5-mini")}
Bodies ==
    {MkMap([id |-> i, choices |-> c, usage |-> u, model |-> m]) :
        i \in {Absent, Str("r1")}, c \in ChoicesVals, u \in UsageVals, m \in ModelVals}
Providers == {"openai", "anthropic"}

\* what requests.post can do: raise, or return a response with a status and a
\* body that response.json() decodes or rejects
PongBody ==
    MkMap([choices |-> List(<<MkMap([message |-> MkMap([content |-> Str("pong")]),
                                      finish_reason |-> Str("stop")])>>),
           usage |-> MkMap([total_tokens |-> Num(5)]), model |-> Str("gpt-5-mini")])
CallBodies ==
    {PongBody, MkMap([id |-> Str("r1"), model |-> Str("claude-3")]),
     MkMap([choices |-> List(<<Str("x")>>)]), List(<<>>), PyNone}
Statuses == {200, 404, 500}
Responses ==
    {[status |-> st, json |-> j] :
        st \in Statuses,
        j \in {Raise("JSONDecodeError", "Expecting value")} \cup {Return(b) : b \in CallBodies}}
TransportOutcomes ==
    {Raise("Timeout", "timed out"), Raise("ConnectionError", "connection refused")}
    \cup {Return(r) : r \in Responses}

----------------------------------------------------------------------------
(* The state machine *)

NoArgs == [n |-> 0]
NoFrame == [entered |-> FALSE]

Init ==
    /\ env \in Envs
    /\ client = NoClient
    /\ op = "none" /\ args = NoArgs /\ out = NoOut
    /\ pc = "idle"
    /\ frame = NoFrame
    /\ posts = <<>>
    /\ resp = Absent
    /\ decoded = Absent
    /\ invoked = 0
    /\ made = <<>>

\* an operation that runs to its end without the network
Ran(name, a, o) ==
    /\ op' = name /\ args' = a /\ out' = o
    /\ pc' = "done"
    /\ UNCHANGED <<env, frame, posts, resp, decoded>>

\* FactChatClient(api_key, base_url)
DoConstruct ==
    /\ pc = "idle" /\ client = NoClient
    /\ \E api_key \in ApiKeyArgs, base_url \in BaseUrlArgs :
         LET r == Construct(env, api_key, base_url, DefaultTimeout)
         IN  /\ client' = IF r.kind = "return" THEN r.value ELSE NoClient
             /\ Ran("__init__", [api_key |-> api_key, base_url |-> base_url],
                    IF r.kind = "return" THEN Return(PyNone) ELSE r)
             /\ UNCHANGED <<invoked, made>>

\* client.router(model)
DoRouter ==
    /\ pc = "idle" /\ client # NoClient
    /\ \E model \in ModelNames :
         Ran("router", [model |-> model], Router(model))
    /\ UNCHANGED <<client, invoked, made>>

\* client.build_payload(model, user_text, **kwargs)
DoBuildPayload ==
    /\ pc = "idle" /\ client # NoClient
    /\ \E model \in BuildModels, user_text \in Texts, kwargs \in AllKwargs :
         Ran("build_payload", [model |-> model, user_text |-> user_text, kwargs |-> kwargs],
             CallBuildPayload(model, user_text, kwargs))
    /\ UNCHANGED <<client, invoked, made>>

\* client._parse_result(provider, data)
DoParseResult ==
    /\ pc = "idle" /\ client # NoClient
    /\ \E provider \in Providers, d \in Bodies :
         LET r == ParseResult(provider, d)
         IN  /\ Ran("_parse_result", [provider |-> provider, data |-> d], r)
             /\ invoked' = invoked + 1
             /\ made' = IF r.kind = "return" THEN Append(made, r.value) ELSE made
    /\ UNCHANGED client

\* client.call(model, user_text, **kwargs) up to the POST: lines 176 to 178
CallEnter ==
    /\ pc = "idle" /\ client # NoClient
    /\ \E model \in CallModels, user_text \in Texts, kwargs \in CallKwargs :
         LET r == Router(model)
             p == CallBuildPayload(model, user_text, kwargs)
             failed == IF ~Bindable(kwargs) THEN BindError
                       ELSE IF r.kind = "raise" THEN r
                       ELSE IF p.kind = "raise" THEN p
                       ELSE NoOut
         IN  /\ op' = "call"
             /\ args' = [model |-> model, user_text |-> user_text, kwargs |-> kwargs]
             /\ out' = failed
             /\ pc' = IF failed = NoOut THEN "post" ELSE "done"
             /\ frame' = IF failed = NoOut
                         THEN [entered |-> TRUE, path |-> r.value.path,
                               provider |-> r.value.provider,
                               url |-> Url(client, r.value.path), payload |-> p.value]
                         ELSE NoFrame
    /\ UNCHANGED <<env, client, posts, resp, decoded, invoked, made>>

\* the POST tried a second time when the transport raises
CallPostRetry ==
    /\ pc = "post"
    /\ \E t \in TransportOutcomes :
         LET post == [url |-> frame.url, headers |-> Headers(client),
                      json |-> frame.payload, timeout |-> client.timeout]
         IN  IF t.kind = "raise"
             THEN posts' = posts \o <<post, post>> /\ out' = t /\ pc' = "done" /\ resp' = resp
             ELSE posts' = Append(posts, post) /\ out' = out /\ pc' = "status"
                  /\ resp' = t.value
    /\ UNCHANGED <<env, client, op, args, frame, decoded, invoked, made>>

\* line 180: requests.post(url, headers, json, timeout), which raises or returns
CallPost ==
    /\ pc = "post"
    /\ \E t \in TransportOutcomes :
         /\ posts' = Append(posts, [url |-> frame.url, headers |-> Headers(client),
                                    json |-> frame.payload, timeout |-> client.timeout])
         /\ IF t.kind = "raise"
            THEN out' = t /\ pc' = "done" /\ resp' = resp
            ELSE out' = out /\ pc' = "status" /\ resp' = t.value
    /\ UNCHANGED <<env, client, op, args, frame, decoded, invoked, made>>

\* the status left unchecked
CallRaiseForStatusSkipped ==
    /\ pc = "status"
    /\ out' = out /\ pc' = "json"
    /\ UNCHANGED <<env, client, op, args, frame, posts, resp, decoded, invoked, made>>

\* line 181: response.raise_for_status() raises on a 4xx or 5xx status
CallRaiseForStatus ==
    /\ pc = "status"
    /\ IF resp.status >= 400 /\ resp.status < 600
       THEN out' = Raise("HTTPError", ToString(resp.status)) /\ pc' = "done"
       ELSE out' = out /\ pc' = "json"
    /\ UNCHANGED <<env, client, op, args, frame, posts, resp, decoded, invoked, made>>

\* line 182: data = response.json()
CallJson ==
    /\ pc = "json"
    /\ IF resp.json.kind = "raise"
       THEN out' = resp.json /\ pc' = "done" /\ decoded' = decoded
       ELSE out' = out /\ pc' = "parse" /\ decoded' = resp.json.value
    /\ UNCHANGED <<env, client, op, args, frame, posts, resp, invoked, made>>

\* line 184: return self._parse_result(provider, data)
CallParse ==
    /\ pc = "parse"
    /\ LET r == ParseResult(frame.provider, decoded)
       IN  /\ invoked' = invoked + 1
           /\ made' = IF r.kind = "return" THEN Append(made, r.value) ELSE made
           /\ out' = r
    /\ pc' = "done"
    /\ UNCHANGED <<env, client, op, args, frame, posts, resp, decoded>>

\* the caller has the outcome and is free to invoke the next operation
Finish ==
    /\ pc = "done"
    /\ pc' = "idle"
    /\ op' = "none" /\ args' = NoArgs /\ out' = NoOut
    /\ frame' = NoFrame /\ posts' = <<>> /\ resp' = Absent /\ decoded' = Absent
    /\ invoked' = 0 /\ made' = <<>>
    /\ UNCHANGED <<env, client>>

Next ==
    \/ DoConstruct
    \/ DoRouter
    \/ DoBuildPayload
    \/ DoParseResult
    \/ CallEnter
    \/ CallPost
    \/ CallRaiseForStatus
    \/ CallJson
    \/ CallParse
    \/ Finish

Spec == Init /\ [][Next]_vars

----------------------------------------------------------------------------
(* Properties *)

\* sub occurs in s
Contains(s, sub) ==
    \E i \in 1..(Len(s) - Len(sub) + 1) : SubSeq(s, i, i + Len(sub) - 1) = sub

IsClaudeName(model) == StartsWith(Lower(model), "claude-")
IsGptName(model) == StartsWith(Lower(model), "gpt-")
Supported(model) == IsClaudeName(model) \/ IsGptName(model)
AnthropicRoute == [path |-> "anthropic/messages", provider |-> "anthropic"]
OpenAIRoute == [path |-> "openai/chat/completions", provider |-> "openai"]
UnsupportedModel(o, model) ==
    /\ o.kind = "raise" /\ o.exc = "ValueError"
    /\ o.msg = "Unsupported model: " \o model
    /\ SubSeq(o.msg, Len(o.msg) - Len(model) + 1, Len(o.msg)) = model

\* C1: router returns the Anthropic route for every model whose lower-cased
\* form starts with "claude-", the OpenAI route for every model whose
\* lower-cased form starts with "gpt-", and fails for every other string with
\* the unsupported-model error, which carries the model string as passed.
Thm_C1 ==
    op = "router" =>
        /\ IsClaudeName(args.model) => out = Return(AnthropicRoute)
        /\ IsGptName(args.model) => out = Return(OpenAIRoute)
        /\ ~Supported(args.model) => UnsupportedModel(out, args.model)

\* router has failed on a model written with capitals
Wit_C1 ==
    /\ op = "router" /\ out.kind = "raise"
    /\ args.model = "GPT4" /\ Lower(args.model) # args.model

\* C2: for every model string (and keyword arguments Python binds), build_payload
\* fails with exactly the failure router raises for that string, or returns a
\* body; no operation ever fails with the "Unsupported provider" error.
Thm_C2 ==
    /\ (op = "build_payload" /\ Bindable(args.kwargs)) =>
          IF Supported(args.model)
          THEN out.kind = "return" /\ IsMap(out.value)
          ELSE out = Router(args.model) /\ UnsupportedModel(out, args.model)
    /\ (out.kind = "raise" /\ out.exc = "ValueError") =>
          StartsWith(out.msg, "Unsupported model: ")

\* build_payload has failed as router does
Wit_C2 ==
    /\ op = "build_payload" /\ Bindable(args.kwargs)
    /\ args.model = "gemini-pro" /\ out.kind = "raise"

\* C3: in the body built for an Anthropic-style model max_tokens is the caller's
\* value when the caller supplies one and 256 otherwise; in the body built for
\* an OpenAI-style model max_tokens is present exactly when the caller supplied
\* it, with the caller's value.
Thm_C3 ==
    (op = "build_payload" /\ Bindable(args.kwargs) /\ Supported(args.model)) =>
        /\ out.kind = "return"
        /\ LET supplied == "max_tokens" \in DOMAIN args.kwargs.m
           IN  /\ IsClaudeName(args.model) =>
                     /\ Has(out.value, "max_tokens")
                     /\ out.value.m["max_tokens"] =
                           IF supplied THEN args.kwargs.m["max_tokens"] ELSE Num(256)
               /\ IsGptName(args.model) =>
                     /\ Has(out.value, "max_tokens") <=> supplied
                     /\ supplied => out.value.m["max_tokens"] = args.kwargs.m["max_tokens"]

\* a body for an Anthropic-style model built with the caller's max_tokens of 10
Wit_C3 ==
    /\ op = "build_payload" /\ out.kind = "return"
    /\ IsClaudeName(args.model)
    /\ Has(args.kwargs, "max_tokens") /\ args.kwargs.m["max_tokens"] = Num(10)
    /\ out.value.m["max_tokens"] = Num(10)

\* the keys the builder generates for a model
BuilderKeys(model) ==
    IF IsClaudeName(model) THEN {"model", "max_tokens", "messages"} ELSE {"model", "messages"}

\* the body is the builder's keys overwritten, key by key, by the caller's
ShallowMerged(body, model, user_text, kwargs) ==
    /\ DOMAIN body.m = BuilderKeys(model) \cup DOMAIN kwargs.m
    /\ \A k \in DOMAIN kwargs.m : body.m[k] = kwargs.m[k]
    /\ "model" \notin DOMAIN kwargs.m => body.m["model"] = Str(model)
    /\ "messages" \notin DOMAIN kwargs.m =>
          /\ body.m["messages"].t = "list"
          /\ Len(body.m["messages"].l) = 1
          /\ body.m["messages"].l[1] = MkMap([role |-> Str("user"), content |-> Str(user_text)])

\* C4, as claimed: for every extra field k the caller supplies, "model" and
\* "messages" included, body[k] is the caller's value; the builder's other keys
\* keep the builder's values; the body has no other keys.
Orig_C4 ==
    (op = "build_payload" /\ Supported(args.model)) =>
        /\ out.kind = "return"
        /\ ShallowMerged(out.value, args.model, args.user_text, args.kwargs)

\* C4, amended: the same for every extra field Python binds to **kwargs, which
\* excludes the names of build_payload's own parameters: an extra field named
\* "self", "model" or "user_text" is rejected with TypeError and no body is built.
Thm_C4 ==
    (op = "build_payload" /\ Supported(args.model)) =>
        IF Bindable(args.kwargs)
        THEN /\ out.kind = "return"
             /\ ShallowMerged(out.value, args.model, args.user_text, args.kwargs)
        ELSE out.kind = "raise" /\ out.exc = "TypeError"

\* a body in which the caller's conversation list has replaced the builder's
Wit_C4 ==
    /\ op = "build_payload" /\ out.kind = "return"
    /\ Has(args.kwargs, "messages")
    /\ out.value.m["messages"] = OwnMessages
    /\ Len(out.value.m["messages"].l) = 2

\* C5: _parse_result returns a result, and never raises, for every provider id
\* and every mapping body, whatever the shape of its "choices".
Claim_C5 ==
    op = "_parse_result" => out.kind = "return"

\* the value under "choices" is a non-empty list
HasChoiceList(d) ==
    Has(d, "choices") /\ IsList(d.m["choices"]) /\ d.m["choices"].l # <<>>
\* the value under k in d, taking a missing key and null as absent
Field(d, k, absent) ==
    IF IsMap(d) /\ Has(d, k) /\ d.m[k] # PyNone THEN d.m[k] ELSE absent
\* what the primary path is to return for d
PrimaryResult(d) ==
    LET first == d.m["choices"].l[1]
    IN  LLMResponse(Field(Field(first, "message", EmptyMap), "content", Str("")),
                    Field(d, "model", Str("")), Field(d, "usage", EmptyMap),
                    Field(first, "finish_reason", PyNone), d)

\* C6: whenever the body holds a non-empty list under "choices", the result has
\* the first choice's message content as text (empty if absent), the first
\* choice's finish_reason, the top-level usage (empty mapping if absent), the
\* top-level model (empty string if absent) and the body as raw.
Claim_C6 ==
    (op = "_parse_result" /\ HasChoiceList(args.data)) =>
        out = Return(PrimaryResult(args.data))

Credential(e, api_key) ==
    IF api_key.t = "str" /\ api_key.s # "" THEN api_key
    ELSE IF "FACTCHAT_API_KEY" \in DOMAIN e /\ e["FACTCHAT_API_KEY"] # ""
    THEN Str(e["FACTCHAT_API_KEY"])
    ELSE PyNone

\* C8: the client's credential is the explicit argument when one is given,
\* otherwise the environment's; when neither yields one, construction fails
\* with the configuration error and no client exists; every client holds a
\* non-empty credential and every POST carries it.
Thm_C8 ==
    /\ client # NoClient => client.api_key.t = "str" /\ client.api_key.s # ""
    /\ op = "__init__" =>
          IF Credential(env, args.api_key) = PyNone
          THEN /\ out = Raise("RuntimeError", "FACTCHAT_API_KEY missing")
               /\ client = NoClient
          ELSE out.kind = "return" /\ client.api_key = Credential(env, args.api_key)
    /\ client = NoClient => posts = <<>>
    /\ \A i \in DOMAIN posts :
          /\ client # NoClient
          /\ posts[i].headers.m["Authorization"] = Str("Bearer " \o client.api_key.s)
          /\ Len(posts[i].headers.m["Authorization"].s) > Len("Bearer ")

\* construction has failed for want of a credential, with nothing posted
Wit_C8 ==
    /\ op = "__init__" /\ out.kind = "raise"
    /\ args.api_key = Str("") /\ "FACTCHAT_API_KEY" \notin DOMAIN env
    /\ client = NoClient /\ posts = <<>>

\* the path of the family a supported model belongs to
FamilyPath(model) ==
    IF IsClaudeName(model) THEN "anthropic/messages" ELSE "openai/chat/completions"

\* C9: an invocation of call issues at most one POST; none when the model is
\* unsupported (routing and building come before the POST); exactly one, to the
\* base address joined with the router's path, when the model is supported,
\* whatever the transport does.  (An invocation Python rejects for a keyword
\* argument named like a parameter never enters call.)
Thm_C9 ==
    /\ Len(posts) <= 1
    /\ op # "call" => posts = <<>>
    /\ (op = "call" /\ Bindable(args.kwargs)) =>
          /\ pc = "post" => posts = <<>> /\ frame.entered /\ IsMap(frame.payload)
          /\ pc \in {"status", "json", "parse"} => Len(posts) = 1
          /\ pc = "done" =>
                IF Supported(args.model)
                THEN /\ Len(posts) = 1
                     /\ posts[1].url = client.base_url.s \o "/" \o FamilyPath(args.model)
                ELSE posts = <<>> /\ UnsupportedModel(out, args.model)

\* a call has ended in a timeout after its one POST
Wit_C9 ==
    /\ op = "call" /\ pc = "done"
    /\ out.kind = "raise" /\ out.exc = "Timeout"
    /\ Len(posts) = 1

\* the call has ended on one of the error paths the claim names
ErrorPath ==
    \/ frame = NoFrame
    \/ posts # <<>> /\ resp = Absent
    \/ resp # Absent /\ resp.status \notin 200..299
    \/ resp # Absent /\ resp.json.kind = "raise"

====
